---- MODULE Spec2Model ----
(***************************************************************************)
(* Pairs-trading backtest engine (src/src/backtester.py), its signal       *)
(* generator (src/src/signals.py) and the parts of the cointegration       *)
(* tester (src/cointegration.py) the engine calls.                         *)
(*                                                                         *)
(* Python floats are modelled as exact rationals <<n, d>> (d > 0, lowest   *)
(* terms).  The numerical routines of numpy / statsmodels (OLS fit, ADF    *)
(* test, mean, std) are modelled by their result, drawn from small sets.   *)
(***************************************************************************)
EXTENDS Integers, Sequences, FiniteSets, TLC

VARIABLES
    config,            \* self.config (the keys the engine reads)
    price_data,        \* self.price_data: asset -> dates (>= 1) holding a row
    dates,             \* self.dates: the sorted common dates
    history_len,       \* per asset, number of rows dated before dates[1]
    current_capital,   \* self.current_capital
    equity_curve,      \* self.equity_curve
    trades,            \* self.trades (the trade log)
    open_positions,    \* self.open_positions (dict pair_key -> Trade)
    trade_id,          \* self.trade_id
    pc,                \* position of run(): "loop", "pairs", "done", "raised";
                       \* "setup_raised" when __init__ itself raised
    date_idx,          \* index into dates of the date being / to be processed
    pair_idx,          \* index into the pair enumeration within a date
    current_prices,    \* run()'s local current_prices
    capital_at_date_start, \* history: current_capital when the date began
    last,              \* locals of the most recent _process_pair call
    sig                \* a stand-alone call of generate_signal and its result

vars == <<config, price_data, dates, history_len, current_capital, equity_curve, trades,
          open_positions, trade_id, pc, date_idx, pair_idx, current_prices,
          capital_at_date_start, last, sig>>

----------------------------------------------------------------------------
(* Bounds of the model *)

\* number of common dates of the run
MaxDates == 3

\* stand-alone generate_signal calls take |zscore| <= MaxAbsZ, in tenths
MaxAbsZ == 3

\* positions opened over a run: past it the inputs raise no entry signal
MaxTrades == 3

\* configured assets, in configured order (config['pairs'])
pairs == <<"A", "B", "C">>

Assets == {pairs[i] : i \in 1..Len(pairs)}

\* close prices each asset's rows may hold (0 is a legal, non-negative close)
Closes == [a \in Assets |-> IF a = "A" THEN {0, 2, 3} ELSE {1}]

\* the rows (asset -> close) of one date
Rows == {r \in [Assets -> UNION {Closes[a] : a \in Assets}] :
            \A a \in Assets : r[a] \in Closes[a]}

----------------------------------------------------------------------------
(* Exact rational arithmetic standing for Python float arithmetic *)

RECURSIVE GCD(_, _)
GCD(a, b) == IF b = 0 THEN a ELSE GCD(b, a % b)

IAbs(i) == IF i < 0 THEN -i ELSE i

Norm(n, d) ==
    LET s == IF d < 0 THEN -1 ELSE 1
        g == GCD(IAbs(n), IAbs(d))
    IN  <<(s * n) \div g, (s * d) \div g>>

R(i) == <<i, 1>>

RAdd(x, y) == Norm(x[1] * y[2] + y[1] * x[2], x[2] * y[2])
RSub(x, y) == Norm(x[1] * y[2] - y[1] * x[2], x[2] * y[2])
RMul(x, y) == Norm(x[1] * y[1], x[2] * y[2])
RDiv(x, y) == Norm(x[1] * y[2], x[2] * y[1])
RNeg(x)    == <<-x[1], x[2]>>
RAbs(x)    == <<IAbs(x[1]), x[2]>>
RLt(x, y)  == x[1] * y[2] < y[1] * x[2]
RMin(x, y) == IF RLt(y, x) THEN y ELSE x

None == <<>>

\* Python truthiness of an optional object
Truthy(x) == x # None

----------------------------------------------------------------------------
(* src/src/signals.py *)

\* SignalGenerator.__init__ defaults
DefaultEntryThreshold == <<2, 1>>
DefaultExitThreshold  == <<1, 2>>

\* the returned dict without the cap on the confidence
SignalResult_uncapped(signal, zscore, confidence) ==
    [signal |-> signal, zscore |-> zscore, confidence |-> confidence]

\* the dict generate_signal returns: 'confidence': min(confidence, 1.0)
SignalResult(signal, zscore, confidence) ==
    [signal |-> signal, zscore |-> zscore, confidence |-> RMin(confidence, R(1))]

\* generate_signal with the entry branch taken whatever the position
generate_signal_entry_unguarded(self, zscore, position_open) ==
    IF Truthy(position_open) /\ RLt(RAbs(zscore), self.exit_threshold)
    THEN SignalResult("CLOSE", zscore,
             RSub(R(1), RDiv(RAbs(zscore), self.exit_threshold)))
    ELSE IF RLt(zscore, RNeg(self.entry_threshold))
         THEN SignalResult("BUY", zscore,
                  RDiv(RSub(RAbs(zscore), self.entry_threshold), self.entry_threshold))
         ELSE IF RLt(self.entry_threshold, zscore)
         THEN SignalResult("SELL", zscore,
                  RDiv(RSub(RAbs(zscore), self.entry_threshold), self.entry_threshold))
         ELSE SignalResult("HOLD", zscore, R(0))

\* generate_signal with BUY and SELL exchanged
generate_signal_sides_exchanged(self, zscore, position_open) ==
    IF Truthy(position_open) /\ RLt(RAbs(zscore), self.exit_threshold)
    THEN SignalResult("CLOSE", zscore,
             RSub(R(1), RDiv(RAbs(zscore), self.exit_threshold)))
    ELSE IF ~Truthy(position_open)
    THEN IF RLt(zscore, RNeg(self.entry_threshold))
         THEN SignalResult("SELL", zscore,
                  RDiv(RSub(RAbs(zscore), self.entry_threshold), self.entry_threshold))
         ELSE IF RLt(self.entry_threshold, zscore)
         THEN SignalResult("BUY", zscore,
                  RDiv(RSub(RAbs(zscore), self.entry_threshold), self.entry_threshold))
         ELSE SignalResult("HOLD", zscore, R(0))
    ELSE SignalResult("HOLD", zscore, R(0))

\* generate_signal with a stop-loss: an open position is also closed when
\* the deviation is beyond the entry threshold
generate_signal_stop_loss(self, zscore, position_open) ==
    IF Truthy(position_open) /\ (\/ RLt(RAbs(zscore), self.exit_threshold)
                                 \/ RLt(self.entry_threshold, RAbs(zscore)))
    THEN SignalResult("CLOSE", zscore,
             RSub(R(1), RDiv(RAbs(zscore), self.exit_threshold)))
    ELSE IF ~Truthy(position_open)
    THEN IF RLt(zscore, RNeg(self.entry_threshold))
         THEN SignalResult("BUY", zscore,
                  RDiv(RSub(RAbs(zscore), self.entry_threshold), self.entry_threshold))
         ELSE IF RLt(self.entry_threshold, zscore)
         THEN SignalResult("SELL", zscore,
                  RDiv(RSub(RAbs(zscore), self.entry_threshold), self.entry_threshold))
         ELSE SignalResult("HOLD", zscore, R(0))
    ELSE SignalResult("HOLD", zscore, R(0))

\* SignalGenerator.generate_signal; self holds the two thresholds
generate_signal(self, zscore, position_open) ==
    IF Truthy(position_open) /\ RLt(RAbs(zscore), self.exit_threshold)
    THEN SignalResult("CLOSE", zscore,
             RSub(R(1), RDiv(RAbs(zscore), self.exit_threshold)))
    ELSE IF ~Truthy(position_open)
    THEN IF RLt(zscore, RNeg(self.entry_threshold))
         THEN SignalResult("BUY", zscore,
                  RDiv(RSub(RAbs(zscore), self.entry_threshold), self.entry_threshold))
         ELSE IF RLt(self.entry_threshold, zscore)
         THEN SignalResult("SELL", zscore,
                  RDiv(RSub(RAbs(zscore), self.entry_threshold), self.entry_threshold))
         ELSE SignalResult("HOLD", zscore, R(0))
    ELSE SignalResult("HOLD", zscore, R(0))

----------------------------------------------------------------------------
(* src/cointegration.py *)

\* CointegrationTester.calculate_spread
calculate_spread(price1, price2, hedge_ratio) ==
    RSub(price1, RMul(hedge_ratio, price2))

\* calculate_zscore taking a zero std for a std of 1
calculate_zscore_unit_std(current_spread, spread_mean, spread_std) ==
    IF spread_std = R(0)
    THEN RSub(current_spread, spread_mean)
    ELSE RDiv(RSub(current_spread, spread_mean), spread_std)

\* CointegrationTester.calculate_zscore
calculate_zscore(current_spread, spread_mean, spread_std) ==
    IF spread_std = R(0)
    THEN R(0)
    ELSE RDiv(RSub(current_spread, spread_mean), spread_std)

\* default lookback of test_cointegration
Lookback == 252

\* lengths of price1_test and price2_test (the slices price[-lookback:])
WindowLens(n1, n2, lookback) ==
    IF n1 > lookback
    THEN <<lookback, IF n2 > lookback THEN lookback ELSE n2>>
    ELSE <<n1, n2>>

\* results numpy / statsmodels may hand back on a window
HedgeRatios  == {R(1)}
PValues      == {<<1, 100>>, <<1, 20>>, <<1, 2>>}
\* <<np.mean(spread), np.std(spread)>>
SpreadStats  == {<<R(7), R(2)>>, <<R(-3), R(2)>>, <<R(4), R(10)>>, <<R(4), R(0)>>}

\* the exception np.linalg.lstsq raises on X and price1 of unequal length
Raised == [raised |-> TRUE]

\* what adfuller(spread) does: raise, or return a p-value
AdfOutcomes ==
    {[raised |-> TRUE]} \cup {[raised |-> FALSE, pvalue |-> p] : p \in PValues}

\* CointegrationTester.adf_test: None when adfuller raised
adf_test(outcome) ==
    IF outcome.raised THEN None ELSE [pvalue |-> outcome.pvalue]

\* cointegration_result giving a failed test numeric defaults and no reason
cointegration_result_defaulted(self, hedge_ratio, adf_result, stats, n) ==
    IF adf_result = None
    THEN [cointegrated |-> FALSE, adf_pvalue |-> R(1), hedge_ratio |-> hedge_ratio,
          spread_mean |-> R(0), spread_std |-> R(0), lookback_periods |-> n]
    ELSE [cointegrated |-> RLt(adf_result.pvalue, self.min_pvalue),
          adf_pvalue |-> adf_result.pvalue, hedge_ratio |-> hedge_ratio,
          spread_mean |-> stats[1], spread_std |-> stats[2],
          lookback_periods |-> n]

\* test_cointegration, lines 129-157: the result dict, from the fitted hedge
\* ratio, adf_test's result, <<mean, std>> of the spread and the window length
cointegration_result(self, hedge_ratio, adf_result, stats, n) ==
    IF adf_result = None
    THEN [cointegrated |-> FALSE, adf_pvalue |-> None, hedge_ratio |-> hedge_ratio,
          spread_mean |-> None, spread_std |-> None, error |-> "ADF test failed"]
    ELSE [cointegrated |-> RLt(adf_result.pvalue, self.min_pvalue),
          adf_pvalue |-> adf_result.pvalue, hedge_ratio |-> hedge_ratio,
          spread_mean |-> stats[1], spread_std |-> stats[2],
          lookback_periods |-> n]

\* test_cointegration on inputs of lengths n1 and n2, given what lstsq,
\* adfuller and np.mean / np.std yield on the window
test_cointegration_on(self, n1, n2, lookback, hedge_ratio, adf_outcome, stats) ==
    LET w == WindowLens(n1, n2, lookback) IN
    IF w[1] # w[2]
    THEN Raised
    ELSE cointegration_result(self, hedge_ratio, adf_test(adf_outcome), stats, w[1])

\* CointegrationTester.test_cointegration: the set of results it may return
\* for inputs of lengths n1 and n2 (or Raised)
test_cointegration(self, n1, n2, lookback) ==
    {test_cointegration_on(self, n1, n2, lookback, h, o, st) :
        h \in HedgeRatios, o \in AdfOutcomes, st \in SpreadStats}

----------------------------------------------------------------------------
(* src/src/backtester.py: Trade *)

\* Trade.__init__ (the exit fields, None until close, are added by close)
Trade(tid, pair, side, entry_time, entry_price, entry_quantity, hedge_ratio) ==
    [trade_id |-> tid, pair |-> pair, side |-> side, entry_time |-> entry_time,
     entry_price |-> entry_price, entry_quantity |-> entry_quantity,
     hedge_ratio |-> hedge_ratio]

\* Trade.close dividing by the signed entry price
close_signed_entry(self, exit_time, exit_price, exit_quantity, fees) ==
    LET spread_change_pct ==
            IF self.entry_price = R(0)
            THEN R(0)
            ELSE RDiv(RSub(exit_price, self.entry_price), self.entry_price)
        gross_pnl ==
            IF self.side = "LONG"
            THEN RMul(self.entry_quantity, spread_change_pct)
            ELSE RMul(RNeg(self.entry_quantity), spread_change_pct)
        net_pnl == RSub(gross_pnl, fees)
    IN  [trade_id |-> self.trade_id, pair |-> self.pair, side |-> self.side,
         entry_time |-> self.entry_time, entry_price |-> self.entry_price,
         entry_quantity |-> self.entry_quantity, hedge_ratio |-> self.hedge_ratio,
         exit_time |-> exit_time, exit_price |-> exit_price,
         exit_quantity |-> exit_quantity, gross_pnl |-> gross_pnl,
         net_pnl |-> net_pnl,
         return_pct |-> IF self.entry_quantity # R(0)
                        THEN RMul(RDiv(net_pnl, self.entry_quantity), R(100))
                        ELSE R(0)]

\* Trade.close taking the absolute spread change when the entry price is 0
close_zero_entry_absolute(self, exit_time, exit_price, exit_quantity, fees) ==
    LET spread_change_pct ==
            IF self.entry_price = R(0)
            THEN RSub(exit_price, self.entry_price)
            ELSE RDiv(RSub(exit_price, self.entry_price), RAbs(self.entry_price))
        gross_pnl ==
            IF self.side = "LONG"
            THEN RMul(self.entry_quantity, spread_change_pct)
            ELSE RMul(RNeg(self.entry_quantity), spread_change_pct)
        net_pnl == RSub(gross_pnl, fees)
    IN  [trade_id |-> self.trade_id, pair |-> self.pair, side |-> self.side,
         entry_time |-> self.entry_time, entry_price |-> self.entry_price,
         entry_quantity |-> self.entry_quantity, hedge_ratio |-> self.hedge_ratio,
         exit_time |-> exit_time, exit_price |-> exit_price,
         exit_quantity |-> exit_quantity, gross_pnl |-> gross_pnl,
         net_pnl |-> net_pnl,
         return_pct |-> IF self.entry_quantity # R(0)
                        THEN RMul(RDiv(net_pnl, self.entry_quantity), R(100))
                        ELSE R(0)]

\* Trade.close: the trade with its exit fields and P&L set
close(self, exit_time, exit_price, exit_quantity, fees) ==
    LET spread_change_pct ==
            IF self.entry_price = R(0)
            THEN R(0)
            ELSE RDiv(RSub(exit_price, self.entry_price), RAbs(self.entry_price))
        gross_pnl ==
            IF self.side = "LONG"
            THEN RMul(self.entry_quantity, spread_change_pct)
            ELSE RMul(RNeg(self.entry_quantity), spread_change_pct)
        net_pnl == RSub(gross_pnl, fees)
    IN  [trade_id |-> self.trade_id, pair |-> self.pair, side |-> self.side,
         entry_time |-> self.entry_time, entry_price |-> self.entry_price,
         entry_quantity |-> self.entry_quantity, hedge_ratio |-> self.hedge_ratio,
         exit_time |-> exit_time, exit_price |-> exit_price,
         exit_quantity |-> exit_quantity, gross_pnl |-> gross_pnl,
         net_pnl |-> net_pnl,
         return_pct |-> IF self.entry_quantity # R(0)
                        THEN RMul(RDiv(net_pnl, self.entry_quantity), R(100))
                        ELSE R(0)]

----------------------------------------------------------------------------
(* src/src/backtester.py: Backtester.  An operator taking self takes the    *)
(* record of the engine's mutable fields and returns the updated record.   *)

\* minimum history of _process_pair
MinObservations == 252

\* dict.get(key): the value, or None
DictGet(d, key) == IF key \in DOMAIN d THEN d[key] ELSE None

\* d[key] = value
DictSet(d, key, value) ==
    [k \in DOMAIN d \cup {key} |-> IF k = key THEN value ELSE d[k]]

\* del d[key]
DictDel(d, key) == [k \in DOMAIN d \ {key} |-> d[k]]

\* _calculate_position_size taking the larger of the two sizes
_calculate_position_size_max(cfg, capital) ==
    LET position_size == RMul(capital, cfg.risk_per_trade)
        max_position  == RMul(capital, RDiv(cfg.max_position_pct, R(100)))
    IN  IF RLt(position_size, max_position) THEN max_position ELSE position_size

\* Backtester._calculate_position_size
_calculate_position_size(cfg, capital) ==
    LET position_size == RMul(capital, cfg.risk_per_trade)
        max_position  == RMul(capital, RDiv(cfg.max_position_pct, R(100)))
    IN  RMin(position_size, max_position)

\* _open_trade sizing against the starting capital
_open_trade_on_starting_capital(self, pair1, pair2, side, date, spread, hedge_ratio) ==
    LET pair_key      == <<pair1, pair2>>
        position_size == _calculate_position_size(self.config,
                                                  self.config.starting_capital)
        trade == Trade(self.trade_id, pair_key, side, date, spread,
                       position_size, hedge_ratio)
    IN  [self EXCEPT !.open_positions = DictSet(@, pair_key, trade),
                     !.trade_id = @ + 1]

\* _open_trade taking the position size out of capital
_open_trade_deducts(self, pair1, pair2, side, date, spread, hedge_ratio) ==
    LET pair_key      == <<pair1, pair2>>
        position_size == _calculate_position_size(self.config, self.current_capital)
        trade == Trade(self.trade_id, pair_key, side, date, spread,
                       position_size, hedge_ratio)
    IN  [self EXCEPT !.open_positions = DictSet(@, pair_key, trade),
                     !.trade_id = @ + 1,
                     !.current_capital = RSub(@, position_size)]

\* _open_trade numbering the trade by the length of the trade log
_open_trade_numbered_by_log(self, pair1, pair2, side, date, spread, hedge_ratio) ==
    LET pair_key      == <<pair1, pair2>>
        position_size == _calculate_position_size(self.config, self.current_capital)
        trade == Trade(Len(self.trades), pair_key, side, date, spread,
                       position_size, hedge_ratio)
    IN  [self EXCEPT !.open_positions = DictSet(@, pair_key, trade),
                     !.trade_id = @ + 1]

\* Backtester._open_trade
_open_trade(self, pair1, pair2, side, date, spread, hedge_ratio) ==
    LET pair_key      == <<pair1, pair2>>
        position_size == _calculate_position_size(self.config, self.current_capital)
        trade == Trade(self.trade_id, pair_key, side, date, spread,
                       position_size, hedge_ratio)
    IN  [self EXCEPT !.open_positions = DictSet(@, pair_key, trade),
                     !.trade_id = @ + 1]

\* _close_trade crediting the gross P&L, the fees forgotten
_close_trade_gross(self, pair1, pair2, date, exit_spread) ==
    LET pair_key == <<pair1, pair2>>
        trade    == self.open_positions[pair_key]
        fees     == RMul(RMul(trade.entry_price, trade.entry_quantity),
                         self.config.commission_pct)
        closed   == close(trade, date, exit_spread, trade.entry_quantity, fees)
    IN  [self EXCEPT !.current_capital = RAdd(@, closed.gross_pnl),
                     !.trades = Append(@, closed),
                     !.open_positions = DictDel(@, pair_key)]

\* _close_trade putting the trade at the head of the log
_close_trade_prepends(self, pair1, pair2, date, exit_spread) ==
    LET pair_key == <<pair1, pair2>>
        trade    == self.open_positions[pair_key]
        fees     == RMul(RMul(trade.entry_price, trade.entry_quantity),
                         self.config.commission_pct)
        closed   == close(trade, date, exit_spread, trade.entry_quantity, fees)
    IN  [self EXCEPT !.current_capital = RAdd(@, closed.net_pnl),
                     !.trades = <<closed>> \o @,
                     !.open_positions = DictDel(@, pair_key)]

\* _close_trade charging a commission of at least 1
_close_trade_min_fee(self, pair1, pair2, date, exit_spread) ==
    LET pair_key == <<pair1, pair2>>
        trade    == self.open_positions[pair_key]
        pct_fees == RMul(RMul(trade.entry_price, trade.entry_quantity),
                         self.config.commission_pct)
        fees     == IF RLt(pct_fees, R(1)) THEN R(1) ELSE pct_fees
        closed   == close(trade, date, exit_spread, trade.entry_quantity, fees)
    IN  [self EXCEPT !.current_capital = RAdd(@, closed.net_pnl),
                     !.trades = Append(@, closed),
                     !.open_positions = DictDel(@, pair_key)]

\* Backtester._close_trade
_close_trade(self, pair1, pair2, date, exit_spread) ==
    LET pair_key == <<pair1, pair2>>
        trade    == self.open_positions[pair_key]
        fees     == RMul(RMul(trade.entry_price, trade.entry_quantity),
                         self.config.commission_pct)
        closed   == close(trade, date, exit_spread, trade.entry_quantity, fees)
    IN  [self EXCEPT !.current_capital = RAdd(@, closed.net_pnl),
                     !.trades = Append(@, closed),
                     !.open_positions = DictDel(@, pair_key)]

\* len(prices): rows of the asset's series dated <= date
ObservationsUpTo(asset, date) ==
    history_len[asset] + Cardinality({d \in price_data[asset] : d <= date})

\* get_position looking the pair up under the reversed key
get_position_reversed_key(self, pair1, pair2) ==
    DictGet(self.open_positions, <<pair2, pair1>>)

\* _process_pair, lines 214-216: the open position of the pair, or None
get_position(self, pair1, pair2) == DictGet(self.open_positions, <<pair1, pair2>>)

\* execute_signal opening the opposite side
execute_signal_swapped_sides(self, signal, position, pair1, pair2, date, current_spread, hedge_ratio) ==
    IF signal = "BUY" /\ ~Truthy(position)
    THEN _open_trade(self, pair1, pair2, "SHORT", date, current_spread, hedge_ratio)
    ELSE IF signal = "SELL" /\ ~Truthy(position)
    THEN _open_trade(self, pair1, pair2, "LONG", date, current_spread, hedge_ratio)
    ELSE IF signal = "CLOSE" /\ Truthy(position)
    THEN _close_trade(self, pair1, pair2, date, current_spread)
    ELSE self

\* _process_pair, lines 222-232: execute the signal
execute_signal(self, signal, position, pair1, pair2, date, current_spread, hedge_ratio) ==
    IF signal = "BUY" /\ ~Truthy(position)
    THEN _open_trade(self, pair1, pair2, "LONG", date, current_spread, hedge_ratio)
    ELSE IF signal = "SELL" /\ ~Truthy(position)
    THEN _open_trade(self, pair1, pair2, "SHORT", date, current_spread, hedge_ratio)
    ELSE IF signal = "CLOSE" /\ Truthy(position)
    THEN _close_trade(self, pair1, pair2, date, current_spread)
    ELSE self

\* _process_pair after test_cointegration returned coint_result
process_result(self, pair1, pair2, date, prices, coint_result) ==
    IF ~coint_result.cointegrated
    THEN [raised |-> FALSE, self |-> self,
          locals |-> [pair |-> <<pair1, pair2>>,
                      returned |-> IF "error" \in DOMAIN coint_result
                                   THEN "test_failed"
                                   ELSE "not_cointegrated"]]
    ELSE
    LET current_spread == calculate_spread(R(prices[pair1]), R(prices[pair2]),
                                           coint_result.hedge_ratio)
        zscore   == calculate_zscore(current_spread, coint_result.spread_mean,
                                     coint_result.spread_std)
        position == get_position(self, pair1, pair2)
        signal_result == generate_signal(
                             [entry_threshold |-> self.config.entry_threshold,
                              exit_threshold  |-> self.config.exit_threshold],
                             zscore, position)
    IN  [raised |-> FALSE,
         self |-> execute_signal(self, signal_result.signal, position, pair1, pair2,
                                 date, current_spread, coint_result.hedge_ratio),
         locals |-> [pair |-> <<pair1, pair2>>, returned |-> "executed",
                     spread_std |-> coint_result.spread_std,
                     current_spread |-> current_spread, position |-> position,
                     signal_result |-> signal_result]]

\* _process_pair returning early only when both histories are short
_process_pair_both_short(self, pair1, pair2, date, prices) ==
    LET n1 == ObservationsUpTo(pair1, date)
        n2 == ObservationsUpTo(pair2, date)
    IN  IF n1 < MinObservations /\ n2 < MinObservations
        THEN {[raised |-> FALSE, self |-> self,
               locals |-> [pair |-> <<pair1, pair2>>,
                           returned |-> "insufficient_history"]]}
        ELSE {IF r = Raised
              THEN [raised |-> TRUE, self |-> self,
                    locals |-> [pair |-> <<pair1, pair2>>, returned |-> "raised"]]
              ELSE process_result(self, pair1, pair2, date, prices, r) :
                 r \in test_cointegration([min_pvalue |-> self.config.min_pvalue],
                                          n1, n2, Lookback)}

\* Backtester._process_pair: the set of its possible outcomes
_process_pair(self, pair1, pair2, date, prices) ==
    LET n1 == ObservationsUpTo(pair1, date)
        n2 == ObservationsUpTo(pair2, date)
    IN  IF n1 < MinObservations \/ n2 < MinObservations
        THEN {[raised |-> FALSE, self |-> self,
               locals |-> [pair |-> <<pair1, pair2>>,
                           returned |-> "insufficient_history"]]}
        ELSE {IF r = Raised
              THEN [raised |-> TRUE, self |-> self,
                    locals |-> [pair |-> <<pair1, pair2>>, returned |-> "raised"]]
              ELSE process_result(self, pair1, pair2, date, prices, r) :
                 r \in test_cointegration([min_pvalue |-> self.config.min_pvalue],
                                          n1, n2, Lookback)}

\* run, lines 165-166: the pairs (pairs[i], pairs[j]), i < j, in loop order
RECURSIVE PairEnumeration(_)
PairEnumeration(ps) ==
    IF Len(ps) < 2
    THEN <<>>
    ELSE [j \in 1..(Len(ps) - 1) |-> <<ps[1], ps[j + 1]>>]
         \o PairEnumeration(Tail(ps))

\* run, lines 155-159: current_prices holds the truthy prices only
CurrentPrices(row) == [a \in {b \in DOMAIN row : row[b] # 0} |-> row[a]]

\* the engine's mutable fields as one record
Self ==
    [config |-> config, current_capital |-> current_capital, trades |-> trades,
     open_positions |-> open_positions, trade_id |-> trade_id]

NoCall == [returned |-> "none"]

----------------------------------------------------------------------------
(* The run: Backtester.__init__ followed by Backtester.run *)

\* configurations the run may start from
Configs ==
    {[starting_capital |-> R(1024),
      risk_per_trade   |-> <<1, 2>>,
      max_position_pct |-> c[1],
      commission_pct   |-> c[2],
      min_pvalue       |-> <<1, 20>>,
      entry_threshold  |-> DefaultEntryThreshold,
      exit_threshold   |-> DefaultExitThreshold] :
         c \in {<<R(25), <<1, 4>>>>, <<R(100), R(0)>>}}

\* rows each asset holds before the first common date: every asset has
\* MinObservations rows from the first date on; B and C reach them a date
\* after A; A reaches them a date after B and C
HistoryProfiles ==
    {[a \in Assets |-> MinObservations - 1],
     [a \in Assets |-> IF a = "A" THEN MinObservations - 1 ELSE MinObservations - 2],
     [a \in Assets |-> IF a = "A" THEN MinObservations - 2 ELSE MinObservations - 1]}

\* sorted(list(S)) for a set of dates
RECURSIVE Sorted(_)
Sorted(S) ==
    IF S = {}
    THEN <<>>
    ELSE LET m == CHOOSE x \in S : \A y \in S : x <= y
         IN  <<m>> \o Sorted(S \ {m})

\* Backtester._get_common_dates, for a non-empty price_data
_get_common_dates(pd) ==
    Sorted({d \in UNION {pd[a] : a \in DOMAIN pd} :
               \A a \in DOMAIN pd : d \in pd[a]})

\* every configured asset with a row on each of the dates 1..MaxDates
FullPriceData == [a \in Assets |-> 1..MaxDates]

\* the state after Backtester.__init__
Constructed ==
    /\ dates = _get_common_dates(price_data)
    /\ current_capital = config.starting_capital
    /\ equity_curve = <<>>
    /\ trades = <<>>
    /\ open_positions = <<>>
    /\ trade_id = 0
    /\ pc = "loop"
    /\ date_idx = 1
    /\ pair_idx = 1
    /\ current_prices = <<>>
    /\ capital_at_date_start = config.starting_capital
    /\ last = NoCall

Init ==
    /\ config \in Configs
    /\ price_data = FullPriceData
    /\ history_len \in HistoryProfiles
    /\ Constructed
    /\ sig = NoCall

\* run, lines 153-162: a date on which some configured asset has no truthy
\* price is skipped (continue)
SkipDate ==
    /\ pc = "loop"
    /\ date_idx <= Len(dates)
    /\ Assets \subseteq DOMAIN price_data
    /\ \E row \in Rows :
          Cardinality(DOMAIN CurrentPrices(row)) < Len(pairs)
    /\ date_idx' = date_idx + 1
    /\ UNCHANGED <<config, price_data, dates, history_len, current_capital, equity_curve,
                   trades, open_positions, trade_id, pc, pair_idx,
                   current_prices, capital_at_date_start, last, sig>>

\* run, lines 153-165: a date with all prices enters the pair loop
BeginDate ==
    /\ pc = "loop"
    /\ date_idx <= Len(dates)
    /\ Assets \subseteq DOMAIN price_data
    /\ \E row \in Rows :
          /\ ~(Cardinality(DOMAIN CurrentPrices(row)) < Len(pairs))
          /\ current_prices' = CurrentPrices(row)
    /\ pc' = "pairs"
    /\ pair_idx' = 1
    /\ capital_at_date_start' = current_capital
    /\ UNCHANGED <<config, price_data, dates, history_len, current_capital, equity_curve,
                   trades, open_positions, trade_id, date_idx, last, sig>>

\* run, lines 165-167: one call of _process_pair
ProcessPair ==
    /\ pc = "pairs"
    /\ pair_idx <= Len(PairEnumeration(pairs))
    /\ LET pair == PairEnumeration(pairs)[pair_idx] IN
       \E out \in _process_pair(Self, pair[1], pair[2], dates[date_idx],
                                current_prices) :
          /\ out.self.trade_id <= MaxTrades
          /\ current_capital' = out.self.current_capital
          /\ trades' = out.self.trades
          /\ open_positions' = out.self.open_positions
          /\ trade_id' = out.self.trade_id
          /\ last' = out.locals
          /\ pc' = IF out.raised THEN "raised" ELSE "pairs"
          /\ pair_idx' = IF out.raised THEN pair_idx ELSE pair_idx + 1
    /\ UNCHANGED <<config, price_data, dates, history_len, equity_curve, date_idx,
                   current_prices, capital_at_date_start, sig>>

\* run, lines 169-173: the date's equity sample
EndDate ==
    /\ pc = "pairs"
    /\ pair_idx > Len(PairEnumeration(pairs))
    /\ equity_curve' = Append(equity_curve,
                              [date |-> dates[date_idx], capital |-> current_capital])
    /\ date_idx' = date_idx + 1
    /\ pc' = "loop"
    /\ current_prices' = <<>>
    /\ last' = NoCall
    /\ UNCHANGED <<config, price_data, dates, history_len, current_capital, trades,
                   open_positions, trade_id, pair_idx, capital_at_date_start, sig>>

\* run, lines 175-177: the dates are exhausted, run returns get_results()
Finish ==
    /\ pc = "loop"
    /\ date_idx > Len(dates)
    /\ pc' = "done"
    /\ UNCHANGED <<config, price_data, dates, history_len, current_capital, equity_curve,
                   trades, open_positions, trade_id, date_idx, pair_idx,
                   current_prices, capital_at_date_start, last, sig>>

Next == SkipDate \/ BeginDate \/ ProcessPair \/ EndDate \/ Finish

Spec == Init /\ [][Next]_vars

----------------------------------------------------------------------------
(* The run over any supplied price_data: series may lack dates, and        *)
(* configured assets may have no series at all                             *)

\* price_data: a series, with rows on some of the dates 1..MaxDates, for
\* some of the configured assets (fetch_multiple_pairs drops the others)
PriceDataInputs ==
    UNION {[D -> (SUBSET (1..MaxDates)) \ {{}}] : D \in SUBSET Assets}

\* __init__ raises: set.intersection(*[]) at line 119 (TypeError), or
\* self.dates[0] at line 114 when no date is common (IndexError)
SetupRaises(pd) == DOMAIN pd = {} \/ _get_common_dates(pd) = <<>>

\* the state when Backtester.__init__ raised: no engine, no run
SetupFailed ==
    /\ dates = <<>>
    /\ current_capital = config.starting_capital
    /\ equity_curve = <<>>
    /\ trades = <<>>
    /\ open_positions = <<>>
    /\ trade_id = 0
    /\ pc = "setup_raised"
    /\ date_idx = 1
    /\ pair_idx = 1
    /\ current_prices = <<>>
    /\ capital_at_date_start = config.starting_capital
    /\ last = NoCall

InputInit ==
    /\ config = CHOOSE c \in Configs : c.commission_pct = R(0)
    /\ price_data \in PriceDataInputs
    /\ history_len = [a \in Assets |-> MinObservations - 1]
    /\ IF SetupRaises(price_data) THEN SetupFailed ELSE Constructed
    /\ sig = NoCall

\* run, lines 156-157 with _get_price_at_date line 124: self.price_data[pair]
\* raises KeyError for a configured asset without a series
MissingSeries ==
    /\ pc = "loop"
    /\ date_idx <= Len(dates)
    /\ ~(Assets \subseteq DOMAIN price_data)
    /\ pc' = "raised"
    /\ UNCHANGED <<config, price_data, dates, history_len, current_capital,
                   equity_curve, trades, open_positions, trade_id, date_idx,
                   pair_idx, current_prices, capital_at_date_start, last, sig>>

InputNext ==
    MissingSeries \/ SkipDate \/ BeginDate \/ ProcessPair \/ EndDate \/ Finish

InputSpec == InputInit /\ [][InputNext]_vars

----------------------------------------------------------------------------
(* generate_signal called on its own, over a grid of inputs *)

ZScores == {Norm(n, 10) : n \in (-10 * MaxAbsZ)..(10 * MaxAbsZ)}

\* thresholds a SignalGenerator is constructed with: __init__ stores what it
\* is given, a negative number included
Thresholds == {DefaultEntryThreshold, DefaultExitThreshold, R(-1)}

\* position_open: None, or a truthy value ('LONG', 'SHORT', a Trade)
PositionArgs == {None, <<"LONG">>, <<"SHORT">>}

SigInit ==
    /\ config = CHOOSE c \in Configs : c.commission_pct = R(0)
    /\ price_data = FullPriceData
    /\ history_len = [a \in Assets |-> MinObservations - 1]
    /\ Constructed
    /\ sig \in [self : [entry_threshold : Thresholds, exit_threshold : Thresholds],
                zscore : ZScores, position_open : PositionArgs, result : {None}]

CallSignal ==
    /\ sig.result = None
    /\ sig' = [sig EXCEPT !.result = generate_signal(sig.self, sig.zscore,
                                                      sig.position_open)]
    /\ UNCHANGED <<config, price_data, dates, history_len, current_capital, equity_curve,
                   trades, open_positions, trade_id, pc, date_idx, pair_idx,
                   current_prices, capital_at_date_start, last>>

SigNext == CallSignal

SigSpec == SigInit /\ [][SigNext]_vars

----------------------------------------------------------------------------
(* _open_trade and _close_trade called on their own: one position opened   *)
(* at any spread and closed at any spread                                  *)

\* spreads range over the integers of absolute value <= MaxSpread
MaxSpread == 2

TradeSpreads == {R(n) : n \in (-MaxSpread)..MaxSpread}

\* configurations of the stand-alone calls: zero, positive and negative
\* capital, with and without commission
TradeConfigs ==
    {[starting_capital |-> R(c),
      risk_per_trade   |-> <<1, 2>>,
      max_position_pct |-> R(25),
      commission_pct   |-> f,
      min_pvalue       |-> <<1, 20>>,
      entry_threshold  |-> DefaultEntryThreshold,
      exit_threshold   |-> DefaultExitThreshold] :
         c \in {-1024, 0, 1024}, f \in {R(0), <<1, 4>>}}

TradeInit ==
    /\ config \in TradeConfigs
    /\ price_data = FullPriceData
    /\ history_len = [a \in Assets |-> MinObservations - 1]
    /\ Constructed
    /\ sig = NoCall

\* _open_trade(pair1, pair2, side, date, spread, hedge_ratio)
OpenCall ==
    /\ sig = NoCall
    /\ \E side \in {"LONG", "SHORT"}, spread \in TradeSpreads, h \in HedgeRatios :
          LET out == _open_trade(Self, pairs[1], pairs[2], side, dates[1], spread, h)
          IN  /\ current_capital' = out.current_capital
              /\ trades' = out.trades
              /\ open_positions' = out.open_positions
              /\ trade_id' = out.trade_id
    /\ sig' = [returned |-> "opened", capital_before |-> current_capital]
    /\ UNCHANGED <<config, price_data, dates, history_len, equity_curve, pc,
                   date_idx, pair_idx, current_prices, capital_at_date_start, last>>

\* _close_trade(pair1, pair2, date, exit_spread)
CloseCall ==
    /\ sig # NoCall
    /\ <<pairs[1], pairs[2]>> \in DOMAIN open_positions
    /\ \E date \in {dates[1], dates[2]}, exit_spread \in TradeSpreads :
          LET out == _close_trade(Self, pairs[1], pairs[2], date, exit_spread)
          IN  /\ current_capital' = out.current_capital
              /\ trades' = out.trades
              /\ open_positions' = out.open_positions
              /\ trade_id' = out.trade_id
    /\ sig' = [sig EXCEPT !.returned = "closed"]
    /\ UNCHANGED <<config, price_data, dates, history_len, equity_curve, pc,
                   date_idx, pair_idx, current_prices, capital_at_date_start, last>>

TradeNext == OpenCall \/ CloseCall

TradeSpec == TradeInit /\ [][TradeNext]_vars

----------------------------------------------------------------------------
(* The observations behind a decision: the rows _process_pair selects and  *)
(* the windows test_cointegration cuts from them.  A series is given by    *)
(* the timestamps of its rows, in ascending order; the history rows before *)
(* the first date carry the dates 0, -1, -2, ...                           *)

\* df['timestamp'].dt.date of the asset's rows, in row order
Timestamps(asset) ==
    [i \in 1..history_len[asset] |-> i - history_len[asset]]
    \o Sorted(price_data[asset])

\* prices_up_to keeping every row, whatever its date
prices_up_to_unmasked(asset, date) == Timestamps(asset)

\* _process_pair, lines 182-189: the rows with timestamp <= date
prices_up_to(asset, date) ==
    LET NotAfter(t) == t <= date
    IN  SelectSeq(Timestamps(asset), NotAfter)

\* price[-lookback:]
Slice(price, lookback) ==
    IF Len(price) > lookback
    THEN SubSeq(price, Len(price) - lookback + 1, Len(price))
    ELSE price

\* test_cointegration, lines 112-118: <<price1_test, price2_test>>
test_windows(price1, price2, lookback) ==
    IF Len(price1) > lookback
    THEN <<Slice(price1, lookback), Slice(price2, lookback)>>
    ELSE <<price1, price2>>

\* rows held before the first date, per asset
WindowHistories ==
    [Assets -> (MinObservations - 2)..(MinObservations + 1)]

WindowInit ==
    /\ config = CHOOSE c \in Configs : c.commission_pct = R(0)
    /\ price_data \in {FullPriceData,
                        [a \in Assets |-> IF a = "A" THEN 1..MaxDates
                                          ELSE (1..MaxDates) \ {1}]}
    /\ history_len \in WindowHistories
    /\ Constructed
    /\ sig = NoCall

\* _process_pair, lines 182-196, for one pair on one date: the rows selected
\* and, with enough of them, the windows handed to the fit
SelectWindows ==
    /\ sig = NoCall
    /\ \E key \in {PairEnumeration(pairs)[i] : i \in 1..Len(PairEnumeration(pairs))},
          k \in DOMAIN dates :
          LET prices1 == prices_up_to(key[1], dates[k])
              prices2 == prices_up_to(key[2], dates[k])
          IN  sig' = IF Len(prices1) < MinObservations \/ Len(prices2) < MinObservations
                     THEN [returned |-> "insufficient_history", pair |-> key,
                           date |-> dates[k]]
                     ELSE [returned |-> "windows", pair |-> key, date |-> dates[k],
                           lens |-> <<Len(prices1), Len(prices2)>>,
                           windows |-> test_windows(prices1, prices2, Lookback)]
    /\ UNCHANGED <<config, price_data, dates, history_len, current_capital,
                   equity_curve, trades, open_positions, trade_id, pc, date_idx,
                   pair_idx, current_prices, capital_at_date_start, last>>

WindowNext == SelectWindows

WindowSpec == WindowInit /\ [][WindowNext]_vars

----------------------------------------------------------------------------
(* test_cointegration called on its own, over input lengths around the     *)
(* lookback                                                                *)

\* lengths of price1 and price2
CointLens == (Lookback - 2)..(Lookback + 2)

CointInit ==
    /\ config = CHOOSE c \in Configs : c.commission_pct = R(0)
    /\ price_data = FullPriceData
    /\ history_len = [a \in Assets |-> MinObservations - 1]
    /\ Constructed
    /\ sig \in [n1 : CointLens, n2 : CointLens, hedge_ratio : HedgeRatios,
                adf_outcome : AdfOutcomes, stats : SpreadStats, result : {None}]

CallTestCointegration ==
    /\ sig.result = None
    /\ sig' = [sig EXCEPT !.result =
                  test_cointegration_on([min_pvalue |-> config.min_pvalue],
                                        sig.n1, sig.n2, Lookback, sig.hedge_ratio,
                                        sig.adf_outcome, sig.stats)]
    /\ UNCHANGED <<config, price_data, dates, history_len, current_capital,
                   equity_curve, trades, open_positions, trade_id, pc, date_idx,
                   pair_idx, current_prices, capital_at_date_start, last>>

CointNext == CallTestCointegration

CointSpec == CointInit /\ [][CointNext]_vars

----------------------------------------------------------------------------
(* calculate_zscore called on its own *)

\* spread standard deviations (never negative)
ZscoreStds == {R(0), R(1), R(2)}

ZscoreInit ==
    /\ config = CHOOSE c \in Configs : c.commission_pct = R(0)
    /\ price_data = FullPriceData
    /\ history_len = [a \in Assets |-> MinObservations - 1]
    /\ Constructed
    /\ sig \in [current_spread : TradeSpreads, spread_mean : TradeSpreads,
                spread_std : ZscoreStds, result : {None}]

\* the value calculate_zscore returns is all its caller receives
CallZscore ==
    /\ sig.result = None
    /\ sig' = [sig EXCEPT !.result = calculate_zscore(sig.current_spread,
                                                       sig.spread_mean,
                                                       sig.spread_std)]
    /\ UNCHANGED <<config, price_data, dates, history_len, current_capital,
                   equity_curve, trades, open_positions, trade_id, pc, date_idx,
                   pair_idx, current_prices, capital_at_date_start, last>>

ZscoreNext == CallZscore

ZscoreSpec == ZscoreInit /\ [][ZscoreNext]_vars

----------------------------------------------------------------------------
(* Properties of the run *)

PairKeys == {PairEnumeration(pairs)[i] : i \in 1..Len(PairEnumeration(pairs))}

\* position of a pair in the enumeration order of run
PairIndex(key) ==
    CHOOSE i \in 1..Len(PairEnumeration(pairs)) : PairEnumeration(pairs)[i] = key

\* the step is a call of _process_pair
IsProcessPairStep ==
    /\ pc = "pairs"
    /\ pair_idx <= Len(PairEnumeration(pairs))
    /\ (pair_idx' = pair_idx + 1 \/ pc' = "raised")

\* the signal the last _process_pair call acted on, "none" if it returned early
SignalOf(locals) ==
    IF locals.returned = "executed" THEN locals.signal_result.signal ELSE "none"

\* C1: each pair key has at most one open position: whenever the entry of a
\* pair in open_positions changes, either there was none and a new trade
\* (with the next trade id) is entered, or there was one and it is removed
\* and appended, closed, to the trade log; an open position is never
\* replaced by another one.
C1_OnePositionPerPair ==
    [][\A key \in PairKeys :
          LET before == DictGet(open_positions, key)
              after  == DictGet(open_positions', key)
          IN  before # after =>
                \/ /\ before = None
                   /\ after.trade_id = trade_id
                   /\ trade_id' = trade_id + 1
                   /\ trades' = trades
                \/ /\ before # None
                   /\ after = None
                   /\ Len(trades') = Len(trades) + 1
                   /\ trades'[Len(trades')].trade_id = before.trade_id
                   /\ trade_id' = trade_id]_vars

\* C1 witness: a pair that holds a position was processed at a deviation
\* below the entry level (a BUY level), and still holds that same position
C1_Witness ==
    /\ last.returned = "executed"
    /\ Truthy(last.position)
    /\ RLt(last.signal_result.zscore, RNeg(config.entry_threshold))
    /\ DictGet(open_positions, last.pair) = last.position

\* C2: a call of _process_pair takes the pair from flat to a position only
\* on BUY (side LONG) or SELL (side SHORT), and from a position to flat only
\* on CLOSE; on HOLD or a signal that does not match the pair's state,
\* capital, trade log and open positions are unchanged; the positions of all
\* other pairs are unchanged in every case.
C2_Transitions ==
    [][IsProcessPairStep =>
          LET key    == PairEnumeration(pairs)[pair_idx]
              before == DictGet(open_positions, key)
              after  == DictGet(open_positions', key)
              signal == SignalOf(last')
          IN  /\ (before = None /\ after # None) =>
                    \/ (signal = "BUY" /\ after.side = "LONG")
                    \/ (signal = "SELL" /\ after.side = "SHORT")
              /\ (before # None /\ after = None) => signal = "CLOSE"
              /\ (before # None /\ after # None) => after = before
              /\ ( \/ signal = "HOLD"
                   \/ (signal \in {"BUY", "SELL"} /\ before # None)
                   \/ (signal = "CLOSE" /\ before = None) ) =>
                    UNCHANGED <<current_capital, trades, open_positions>>
              /\ \A other \in PairKeys \ {key} :
                    DictGet(open_positions', other) = DictGet(open_positions, other)
      ]_vars

\* C2 witness: a BUY has just opened a LONG position for one pair while
\* another pair holds a position
C2_Witness ==
    /\ SignalOf(last) = "BUY"
    /\ last.pair \in DOMAIN open_positions
    /\ open_positions[last.pair].side = "LONG"
    /\ open_positions[last.pair].entry_time = dates[date_idx]
    /\ \E other \in DOMAIN open_positions : other # last.pair

RECURSIVE SumNetPnl(_)
SumNetPnl(log) ==
    IF log = <<>> THEN R(0) ELSE RAdd(log[1].net_pnl, SumNetPnl(Tail(log)))

\* C3: at every point of a run current_capital equals starting_capital plus
\* the sum of net_pnl over the trade log; hence capital moves only when a
\* trade enters the log, by that trade's net_pnl, and an open leaves it alone.
C3_CapitalIsStartPlusNetPnl ==
    current_capital = RAdd(config.starting_capital, SumNetPnl(trades))

\* C3 witness: two trades with non-zero net P&L are in the log and a position
\* opened after the first close is open
C3_Witness ==
    /\ Len(trades) >= 2
    /\ \A i \in 1..Len(trades) : trades[i].net_pnl # R(0)
    /\ \E key \in DOMAIN open_positions :
          open_positions[key].entry_time >= trades[1].exit_time

\* C5: after run() the equity curve holds exactly one sample per common
\* date, in ascending date order: its length is the number of dates.
C5_OneSamplePerDate ==
    pc = "done" =>
        /\ Len(equity_curve) = Len(dates)
        /\ \A i \in 1..Len(equity_curve) : equity_curve[i].date = dates[i]

\* the trades of the log closed on a date
ClosedOn(date) == {i \in 1..Len(trades) : trades[i].exit_time = date}

\* C6: of two consecutive equity samples the later capital is lower only if
\* a trade with negative net P&L closed on the later sample's date, and it
\* equals the earlier capital if no trade closed on that date.
C6_EquityFallsOnlyOnLoss ==
    \A i \in 2..Len(equity_curve) :
        LET earlier == equity_curve[i - 1]
            later   == equity_curve[i]
        IN  /\ RLt(later.capital, earlier.capital) =>
                  \E t \in ClosedOn(later.date) : RLt(trades[t].net_pnl, R(0))
            /\ ClosedOn(later.date) = {} => later.capital = earlier.capital

\* C6 witness: an equity curve with a sample lower than the one before it,
\* and a later sample on a date without any close
C6_Witness ==
    \E i \in 2..Len(equity_curve) :
        /\ RLt(equity_curve[i].capital, equity_curve[i - 1].capital)
        /\ \E j \in (i + 1)..Len(equity_curve) : ClosedOn(equity_curve[j].date) = {}

\* C7: the trade log is in closing order: exit dates are non-decreasing
\* along the log, and trades closed on the same date are in pair
\* enumeration order.
C7_LogInClosingOrder ==
    \A i, j \in 1..Len(trades) :
        i < j =>
            /\ trades[i].exit_time <= trades[j].exit_time
            /\ trades[i].exit_time = trades[j].exit_time =>
                  PairIndex(trades[i].pair) < PairIndex(trades[j].pair)

\* C7 witness: a log with two trades closed on one date and a third closed
\* on a later date
C7_Witness ==
    /\ Len(trades) >= 3
    /\ trades[1].exit_time = trades[2].exit_time
    /\ trades[2].exit_time < trades[3].exit_time

\* C8: with entry_threshold 2.0 and exit_threshold 0.5 a flat pair processed
\* at deviation -2.5 is opened LONG on that date, and a pair holding a
\* position processed at deviation -0.3 is closed on that date; every
\* closed trade has an exit date strictly later than its entry date.
C8_OpenThenCloseLater ==
    /\ \A i \in 1..Len(trades) : trades[i].entry_time < trades[i].exit_time
    /\ ( /\ last.returned = "executed"
         /\ config.entry_threshold = <<2, 1>>
         /\ config.exit_threshold = <<1, 2>> ) =>
          /\ (last.position = None /\ last.signal_result.zscore = <<-5, 2>>) =>
                /\ last.pair \in DOMAIN open_positions
                /\ open_positions[last.pair].side = "LONG"
                /\ open_positions[last.pair].entry_time = dates[date_idx]
          /\ (last.position # None /\ last.signal_result.zscore = <<-3, 10>>) =>
                /\ last.pair \notin DOMAIN open_positions
                /\ trades # <<>>
                /\ trades[Len(trades)].trade_id = last.position.trade_id
                /\ trades[Len(trades)].exit_time = dates[date_idx]
                /\ last.position.entry_time < dates[date_idx]

\* C8 witness: a LONG position entered at spread 2 (where only deviation
\* -2.5 raises BUY) has just been closed at deviation -0.3
C8_Witness ==
    /\ last.returned = "executed"
    /\ last.position # None
    /\ last.position.side = "LONG"
    /\ last.position.entry_price = R(2)
    /\ last.signal_result.zscore = <<-3, 10>>
    /\ trades # <<>>
    /\ trades[Len(trades)].trade_id = last.position.trade_id

\* the positions opened on the date being processed
OpenedToday ==
    IF pc = "pairs"
    THEN {key \in DOMAIN open_positions :
             open_positions[key].entry_time = dates[date_idx]}
    ELSE {}

\* min(risk_per_trade x capital, (max_position_pct / 100) x capital)
SizeFor(capital) ==
    LET by_risk == RMul(config.risk_per_trade, capital)
        by_cap  == RMul(RDiv(config.max_position_pct, R(100)), capital)
    IN  IF RLt(by_cap, by_risk) THEN by_cap ELSE by_risk

\* net P&L of the trades closed today by pairs enumerated before key
ClosedTodayBefore(key) ==
    LET ClosedBefore(t) == /\ t.exit_time = dates[date_idx]
                           /\ PairIndex(t.pair) < PairIndex(key)
    IN  SumNetPnl(SelectSeq(trades, ClosedBefore))

\* C9 as claimed: every position opened on a date is sized against the
\* capital held before any of that date's trades.
C9_SizedOnDateStartCapital ==
    \A key \in OpenedToday :
        open_positions[key].entry_quantity = SizeFor(capital_at_date_start)

\* C9 as amended: every position opened on a date is sized against the
\* capital at the moment of its open, which is the capital held before any
\* of that date's trades plus the net P&L of the trades closed earlier on
\* that date in pair enumeration order.
C9_SizedOnCapitalAtOpen ==
    \A key \in OpenedToday :
        open_positions[key].entry_quantity =
            SizeFor(RAdd(capital_at_date_start, ClosedTodayBefore(key)))

\* C9 witness: two positions opened on one date with different sizes, a
\* trade having closed between them
C9_Witness ==
    \E k1, k2 \in OpenedToday :
        /\ PairIndex(k1) < PairIndex(k2)
        /\ open_positions[k1].entry_quantity # open_positions[k2].entry_quantity
        /\ \E t \in ClosedOn(dates[date_idx]) :
              /\ PairIndex(k1) < PairIndex(trades[t].pair)
              /\ PairIndex(trades[t].pair) < PairIndex(k2)

\* C10: the notional of a newly opened position is
\* min(risk_per_trade x capital, (max_position_pct / 100) x capital) for the
\* engine's capital at the moment of the open, hence at most
\* max_position_pct percent of it.
C10_NotionalIsCappedSize ==
    [][\A key \in PairKeys :
          (key \notin DOMAIN open_positions /\ key \in DOMAIN open_positions') =>
              LET notional == open_positions'[key].entry_quantity
                  by_risk  == RMul(config.risk_per_trade, current_capital)
                  by_cap   == RMul(RDiv(config.max_position_pct, R(100)),
                                   current_capital)
              IN  /\ notional \in {by_risk, by_cap}
                  /\ ~RLt(by_risk, notional)
                  /\ ~RLt(by_cap, notional)]_vars

\* C10 witness: a position just opened at a capital other than the starting
\* capital, its notional being the risk-based size, below the cap
C10_Witness ==
    /\ OpenedToday # {}
    /\ SignalOf(last) \in {"BUY", "SELL"}
    /\ current_capital # config.starting_capital
    /\ open_positions[last.pair].entry_quantity =
           RMul(config.risk_per_trade, current_capital)
    /\ RLt(open_positions[last.pair].entry_quantity,
           RMul(RDiv(config.max_position_pct, R(100)), current_capital))

\* C15: a call of _process_pair for a pair with fewer than 252 observations
\* of either asset, or whose test says not cointegrated, or whose
\* stationarity test failed, raises nothing, leaves the pair's position (open
\* or flat), capital, the trade log and the trade-id counter unchanged, and
\* the loop moves on to the next pair of the date.
C15_SkipLeavesStateAlone ==
    [][IsProcessPairStep =>
          LET key   == PairEnumeration(pairs)[pair_idx]
              date  == dates[date_idx]
              short == \/ ObservationsUpTo(key[1], date) < 252
                       \/ ObservationsUpTo(key[2], date) < 252
          IN  /\ short => last'.returned = "insufficient_history"
              /\ last'.returned \in {"insufficient_history", "not_cointegrated",
                                      "test_failed"} =>
                    /\ UNCHANGED <<current_capital, trades, open_positions,
                                   trade_id, equity_curve>>
                    /\ pc' = "pairs"
                    /\ pair_idx' = pair_idx + 1
                    /\ date_idx' = date_idx]_vars

\* C15 witness: a pair holding a position was skipped because its
\* stationarity test failed, kept the position, and is not the last pair of
\* the date
C15_Witness ==
    /\ pc = "pairs"
    /\ last.returned = "test_failed"
    /\ last.pair \in DOMAIN open_positions
    /\ pair_idx <= Len(PairEnumeration(pairs))

\* C20: when a pair is processed on a date where the window's spread has
\* zero standard deviation, nothing is raised and no position is opened for
\* the pair, whatever the current prices (entry 2.0, exit 0.5).
C20_ZeroStdOpensNothing ==
    (last.returned = "executed" /\ last.spread_std = R(0)
        /\ config.entry_threshold = <<2, 1>>
        /\ config.exit_threshold = <<1, 2>>) =>
        /\ pc # "raised"
        /\ last.signal_result.signal \notin {"BUY", "SELL"}
        /\ last.position = None => last.pair \notin DOMAIN open_positions
        /\ last.position # None =>
              DictGet(open_positions, last.pair) \in {None, last.position}

\* C20 witness: a flat pair was processed at zero std with a current spread
\* away from the window's mean, and is still flat
C20_Witness ==
    /\ last.returned = "executed"
    /\ last.spread_std = R(0)
    /\ last.position = None
    /\ last.current_spread = R(0)
    /\ last.pair \notin DOMAIN open_positions

----------------------------------------------------------------------------
(* Properties of generate_signal *)

\* the signal the decision table of the specification gives
TableSignal(self, z, open) ==
    IF open /\ z[1] * self.exit_threshold[2] < self.exit_threshold[1] * z[2]
            /\ -z[1] * self.exit_threshold[2] < self.exit_threshold[1] * z[2]
    THEN "CLOSE"
    ELSE IF ~open /\ z[1] * self.entry_threshold[2] < -self.entry_threshold[1] * z[2]
    THEN "BUY"
    ELSE IF ~open /\ z[1] * self.entry_threshold[2] > self.entry_threshold[1] * z[2]
    THEN "SELL"
    ELSE "HOLD"

\* C4: for every deviation z and position state generate_signal returns
\* CLOSE iff a position is open and |z| < exit_threshold, otherwise BUY iff
\* flat and z < -entry_threshold, otherwise SELL iff flat and
\* z > entry_threshold, otherwise HOLD; never CLOSE for a flat pair, never
\* BUY or SELL for a pair with an open position.
C4_SignalTable ==
    sig.result # None =>
        /\ sig.result.signal =
               TableSignal(sig.self, sig.zscore, sig.position_open # None)
        /\ sig.position_open = None => sig.result.signal # "CLOSE"
        /\ sig.position_open # None => sig.result.signal \notin {"BUY", "SELL"}

\* C4 witness: a deviation beyond the entry threshold and not inside the exit
\* threshold, with a position open, is answered HOLD
C4_Witness ==
    /\ sig.result # None
    /\ sig.position_open # None
    /\ RLt(sig.self.entry_threshold, RAbs(sig.zscore))
    /\ ~RLt(RAbs(sig.zscore), sig.self.exit_threshold)
    /\ sig.result.signal = "HOLD"

----------------------------------------------------------------------------
(* Properties of Trade.close and of a round trip *)

\* the commission a closed trade was charged
FeesOf(t) == RSub(t.gross_pnl, t.net_pnl)

\* C11 as claimed: a closed trade with positive notional and zero fees has,
\* if LONG, positive net P&L when exit spread > entry spread and negative
\* when exit spread < entry spread, and the opposite signs if SHORT.
C11_PnlSignFollowsSpread ==
    \A i \in 1..Len(trades) :
        LET t == trades[i] IN
        (RLt(R(0), t.entry_quantity) /\ FeesOf(t) = R(0)) =>
            /\ RLt(t.entry_price, t.exit_price) =>
                  IF t.side = "LONG" THEN RLt(R(0), t.net_pnl)
                                     ELSE RLt(t.net_pnl, R(0))
            /\ RLt(t.exit_price, t.entry_price) =>
                  IF t.side = "LONG" THEN RLt(t.net_pnl, R(0))
                                     ELSE RLt(R(0), t.net_pnl)

\* C11 as amended: the sign rule holds for a closed trade with positive
\* notional, zero fees and a nonzero entry spread (of either sign); with an
\* entry spread of exactly 0 and zero fees the net P&L is 0 whatever the
\* exit spread.
C11_PnlSignFollowsSpreadNonzeroEntry ==
    \A i \in 1..Len(trades) :
        LET t == trades[i] IN
        (RLt(R(0), t.entry_quantity) /\ FeesOf(t) = R(0)) =>
            /\ (t.entry_price # R(0) /\ RLt(t.entry_price, t.exit_price)) =>
                  IF t.side = "LONG" THEN RLt(R(0), t.net_pnl)
                                     ELSE RLt(t.net_pnl, R(0))
            /\ (t.entry_price # R(0) /\ RLt(t.exit_price, t.entry_price)) =>
                  IF t.side = "LONG" THEN RLt(t.net_pnl, R(0))
                                     ELSE RLt(R(0), t.net_pnl)
            /\ t.entry_price = R(0) => t.net_pnl = R(0)

\* C11 witness: a LONG trade entered at a negative spread and closed at a
\* higher one, with positive notional and zero fees, made a profit
C11_Witness ==
    \E i \in 1..Len(trades) :
        /\ trades[i].side = "LONG"
        /\ RLt(trades[i].entry_price, R(0))
        /\ RLt(trades[i].entry_price, trades[i].exit_price)
        /\ RLt(R(0), trades[i].entry_quantity)
        /\ FeesOf(trades[i]) = R(0)
        /\ RLt(R(0), trades[i].net_pnl)

\* C12: a position (either side, any notional, any entry spread) opened and
\* then closed at its entry spread with zero commission has gross P&L, net
\* P&L and return percentage 0, and capital is what it was before the open.
C12_RoundTripIsNeutral ==
    (sig # NoCall /\ sig.returned = "closed" /\ config.commission_pct = R(0)) =>
        LET t == trades[Len(trades)] IN
        t.exit_price = t.entry_price =>
            /\ t.gross_pnl = R(0)
            /\ t.net_pnl = R(0)
            /\ t.return_pct = R(0)
            /\ current_capital = sig.capital_before

\* C12 witness: a SHORT position of non-zero notional entered at a negative
\* spread has been closed at that spread, commission being zero
C12_Witness ==
    /\ sig # NoCall
    /\ sig.returned = "closed"
    /\ config.commission_pct = R(0)
    /\ trades[Len(trades)].side = "SHORT"
    /\ trades[Len(trades)].entry_quantity # R(0)
    /\ RLt(trades[Len(trades)].entry_price, R(0))
    /\ trades[Len(trades)].exit_price = trades[Len(trades)].entry_price

----------------------------------------------------------------------------
(* Properties of the windows *)

\* C13: every observation in the two windows fitted for a pair on date d
\* has a timestamp <= d, and each window ends with the observation of date d
\* itself; the rows counted against the 252 minimum are those same rows.
C13_NoLookAhead ==
    (sig # NoCall /\ sig.returned = "windows") =>
        \A j \in {1, 2} :
            LET w == sig.windows[j] IN
            /\ \A i \in 1..Len(w) : w[i] <= sig.date
            /\ w[Len(w)] = sig.date
            /\ sig.lens[j] = ObservationsUpTo(sig.pair[j], sig.date)

\* C13 witness: windows cut for a date with later rows in both series, the
\* first window being a proper slice of the rows up to the date
C13_Witness ==
    /\ sig # NoCall
    /\ sig.returned = "windows"
    /\ sig.date < dates[Len(dates)]
    /\ Len(sig.windows[1]) = Lookback
    /\ sig.lens[1] > Lookback
    /\ \A j \in {1, 2} : sig.date + 1 \in price_data[sig.pair[j]]

----------------------------------------------------------------------------
(* Properties of the run over any supplied price_data *)

\* the dates on which every configured asset has a row
ConfiguredCommonDates ==
    {d \in 1..MaxDates :
        \A a \in Assets : a \in DOMAIN price_data /\ d \in price_data[a]}

\* C14: the dates simulated by a completed run are exactly the dates present
\* in the series of every configured asset, ascending and without
\* duplicates; no date is excluded for any other reason.
C14_SimulatedDatesAreCommonDates ==
    pc = "done" =>
        [i \in 1..Len(equity_curve) |-> equity_curve[i].date]
            = Sorted(ConfiguredCommonDates)

\* C17: when a configured asset has no price series the failure is raised
\* by the constructor, before the simulation loop starts.
C17_MissingSeriesFailsAtSetup ==
    ~(Assets \subseteq DOMAIN price_data) => pc = "setup_raised"

----------------------------------------------------------------------------
(* Properties of test_cointegration *)

\* C16: when adfuller cannot be computed on the spread, test_cointegration
\* does not raise and returns cointegrated = FALSE with an error reason,
\* p-value, spread mean and spread std being None.
C16_FailedTestIsReported ==
    (sig.result # None /\ sig.adf_outcome.raised
        /\ WindowLens(sig.n1, sig.n2, Lookback)[1]
              = WindowLens(sig.n1, sig.n2, Lookback)[2]) =>
        /\ sig.result # Raised
        /\ sig.result.cointegrated = FALSE
        /\ "error" \in DOMAIN sig.result
        /\ sig.result.adf_pvalue = None
        /\ sig.result.spread_mean = None
        /\ sig.result.spread_std = None

\* C16 witness: the test failed on two windows of the lookback length cut
\* from longer inputs, and a result was returned
C16_Witness ==
    /\ sig.result # None
    /\ sig.adf_outcome.raised
    /\ sig.n1 > Lookback
    /\ sig.n2 > Lookback
    /\ sig.result # Raised

\* the smaller of two integers
IMin(a, b) == IF a < b THEN a ELSE b

\* C18: for inputs of at least 252 observations each, test_cointegration
\* fits the most recent min(lookback, length) observations of each series,
\* two windows of equal length, and reports that length as lookback_periods.
C18_OneWindowForBothSeries ==
    (sig.result # None /\ sig.n1 >= 252 /\ sig.n2 >= 252) =>
        /\ WindowLens(sig.n1, sig.n2, Lookback)
              = <<IMin(Lookback, sig.n1), IMin(Lookback, sig.n2)>>
        /\ sig.result # Raised
        /\ "lookback_periods" \in DOMAIN sig.result =>
              sig.result.lookback_periods = IMin(Lookback, sig.n1)

----------------------------------------------------------------------------
(* Properties of calculate_zscore *)

\* C19: calculate_zscore(m, m, s) is 0 for a nonzero std s;
\* calculate_zscore(x, m, 0) returns 0, and what it returns lets the caller
\* tell the zero-std case apart from a genuine deviation of 0.
C19_ZeroStdIsFlagged ==
    sig.result # None =>
        /\ (sig.spread_std # R(0) /\ sig.current_spread = sig.spread_mean) =>
              sig.result = R(0)
        /\ sig.spread_std = R(0) =>
              /\ RAbs(sig.result) = R(0)
              /\ sig.result # calculate_zscore(sig.spread_mean, sig.spread_mean, R(1))

----------------------------------------------------------------------------
(* Trade.close called on its own: a trade of either side, any entry and    *)
(* exit spread, zero or positive notional, and any fees argument.          *)

\* entry_quantity of the trades closed directly
CloseQuantities == {R(0), R(256)}

\* fees argument of Trade.close
CloseFees == {R(0), R(64), R(-64)}

CloseInit ==
    /\ config = CHOOSE c \in Configs : c.commission_pct = R(0)
    /\ price_data = FullPriceData
    /\ history_len = [a \in Assets |-> MinObservations - 1]
    /\ Constructed
    /\ \E side \in {"LONG", "SHORT"}, entry \in TradeSpreads, q \in CloseQuantities,
          exit \in TradeSpreads, fees \in CloseFees :
          sig = [trade |-> Trade(0, <<pairs[1], pairs[2]>>, side, 1, entry, q, R(1)),
                 exit_price |-> exit, fees |-> fees, result |-> None]

\* trade.close(exit_time, exit_price, exit_quantity, fees)
CallClose ==
    /\ sig.result = None
    /\ sig' = [sig EXCEPT !.result = close(sig.trade, 2, sig.exit_price,
                                           sig.trade.entry_quantity, sig.fees)]
    /\ UNCHANGED <<config, price_data, dates, history_len, current_capital,
                   equity_curve, trades, open_positions, trade_id, pc, date_idx,
                   pair_idx, current_prices, capital_at_date_start, last>>

CloseNext == CallClose

CloseSpec == CloseInit /\ [][CloseNext]_vars

----------------------------------------------------------------------------
(* Properties of Trade.close on degenerate trades *)

\* C21: closing a trade whose entry spread is exactly 0 completes with gross
\* P&L 0 and net P&L equal to minus the fees, for either side and any exit
\* spread; closing a trade with zero notional gives return percentage 0.
C21_ZeroEntryClosesFlat ==
    sig.result # None =>
        /\ sig.trade.entry_price = R(0) =>
              /\ sig.result.gross_pnl = R(0)
              /\ sig.result.net_pnl = RNeg(sig.fees)
        /\ sig.trade.entry_quantity = R(0) => sig.result.return_pct = R(0)

\* a short trade of positive notional entered at spread 0 is closed at a
\* lower spread with nonzero fees
C21_Witness ==
    /\ sig.result # None
    /\ sig.trade.side = "SHORT"
    /\ sig.trade.entry_price = R(0)
    /\ sig.trade.entry_quantity # R(0)
    /\ RLt(sig.exit_price, R(0))
    /\ sig.fees # R(0)
    /\ sig.result.net_pnl = RNeg(sig.fees)

----------------------------------------------------------------------------
(* Properties of the confidence generate_signal returns *)

\* the confidence the specification gives for a signal
ConfidenceFor(self, z, signal) ==
    CASE signal = "CLOSE" -> RSub(R(1), RDiv(RAbs(z), self.exit_threshold))
      [] signal \in {"BUY", "SELL"} ->
             RMin(RDiv(RSub(RAbs(z), self.entry_threshold), self.entry_threshold),
                  R(1))
      [] OTHER -> R(0)

InUnitInterval(x) == ~RLt(x, R(0)) /\ ~RLt(R(1), x)

----------------------------------------------------------------------------
(* src/src/analyzer.py: PerformanceAnalyzer.  A trade of the log is the     *)
(* dict of Trade.to_dict, of which the analyzer reads net_pnl; the equity   *)
(* curve is the sequence of its capital column.  Every metric is a number, *)
(* held as a rational, counts included.                                     *)

\* a value computed with floating-point roots and powers of the equity curve
\* (volatility, annualised return, Sharpe and Calmar ratios, drawdown): the
\* key is kept, the number is not computed
Float == <<"float">>

IMax(a, b) == IF a < b THEN b ELSE a

RECURSIVE sum(_)
\* the builtin sum of a list of numbers
sum(list) == IF list = <<>> THEN R(0) ELSE RAdd(list[1], sum(Tail(list)))

RECURSIVE RMaxOf(_)
\* the builtin max of a non-empty list
RMaxOf(list) ==
    IF Len(list) = 1 THEN list[1]
    ELSE LET m == RMaxOf(Tail(list)) IN IF RLt(list[1], m) THEN m ELSE list[1]

RECURSIVE RMinOf(_)
\* the builtin min of a non-empty list
RMinOf(list) ==
    IF Len(list) = 1 THEN list[1] ELSE RMin(list[1], RMinOf(Tail(list)))

IsWin(p)  == RLt(R(0), p)
IsLoss(p) == RLt(p, R(0))

\* [t['net_pnl'] for t in trades]
NetPnls(trade_log) == [i \in 1..Len(trade_log) |-> trade_log[i].net_pnl]

\* _calculate_profit_factor with the bare gross profit when nothing was lost
_calculate_profit_factor_unscaled(trade_log) ==
    LET gross_profit == sum(SelectSeq(NetPnls(trade_log), IsWin))
        gross_loss   == RAbs(sum(SelectSeq(NetPnls(trade_log), IsLoss)))
    IN  IF gross_loss = R(0)
        THEN IF RLt(R(0), gross_profit) THEN gross_profit ELSE R(0)
        ELSE RDiv(gross_profit, gross_loss)

\* PerformanceAnalyzer._calculate_profit_factor
_calculate_profit_factor(trade_log) ==
    LET gross_profit == sum(SelectSeq(NetPnls(trade_log), IsWin))
        gross_loss   == RAbs(sum(SelectSeq(NetPnls(trade_log), IsLoss)))
    IN  IF gross_loss = R(0)
        THEN IF RLt(R(0), gross_profit) THEN RDiv(gross_profit, <<1, 100>>) ELSE R(0)
        ELSE RDiv(gross_profit, gross_loss)

RECURSIVE consecutive_wins_loop(_, _, _)
\* the loop of _calculate_consecutive_wins over the rest of pnl_list
consecutive_wins_loop(pnl_list, max_consecutive, current_consecutive) ==
    IF pnl_list = <<>> THEN max_consecutive
    ELSE IF RLt(R(0), pnl_list[1])
         THEN consecutive_wins_loop(Tail(pnl_list),
                  IMax(max_consecutive, current_consecutive + 1),
                  current_consecutive + 1)
         ELSE consecutive_wins_loop(Tail(pnl_list), max_consecutive, 0)

\* _calculate_consecutive_wins never resetting the current run
_calculate_consecutive_wins_no_reset(pnl_list) == Len(SelectSeq(pnl_list, IsWin))

\* PerformanceAnalyzer._calculate_consecutive_wins
_calculate_consecutive_wins(pnl_list) == consecutive_wins_loop(pnl_list, 0, 0)

RECURSIVE consecutive_losses_loop(_, _, _)
\* the loop of _calculate_consecutive_losses over the rest of pnl_list
consecutive_losses_loop(pnl_list, max_consecutive, current_consecutive) ==
    IF pnl_list = <<>> THEN max_consecutive
    ELSE IF RLt(pnl_list[1], R(0))
         THEN consecutive_losses_loop(Tail(pnl_list),
                  IMax(max_consecutive, current_consecutive + 1),
                  current_consecutive + 1)
         ELSE consecutive_losses_loop(Tail(pnl_list), max_consecutive, 0)

\* PerformanceAnalyzer._calculate_consecutive_losses
_calculate_consecutive_losses(pnl_list) == consecutive_losses_loop(pnl_list, 0, 0)

\* PerformanceAnalyzer._calculate_trade_metrics
_calculate_trade_metrics(trade_log) ==
    LET pnl_list       == NetPnls(trade_log)
        winning_trades == SelectSeq(pnl_list, IsWin)
        losing_trades  == SelectSeq(pnl_list, IsLoss)
    IN  IF Len(pnl_list) = 0
        THEN [total_trades |-> R(0)]
        ELSE [total_trades       |-> R(Len(pnl_list)),
              winning_trades     |-> R(Len(winning_trades)),
              losing_trades      |-> R(Len(losing_trades)),
              win_rate           |-> Norm(Len(winning_trades), Len(pnl_list)),
              loss_rate          |-> Norm(Len(losing_trades), Len(pnl_list)),
              total_pnl          |-> sum(pnl_list),
              avg_pnl_per_trade  |-> RDiv(sum(pnl_list), R(Len(pnl_list))),
              largest_win        |-> IF winning_trades # <<>> THEN RMaxOf(pnl_list) ELSE R(0),
              largest_loss       |-> IF losing_trades # <<>> THEN RMinOf(pnl_list) ELSE R(0),
              avg_win            |-> IF winning_trades # <<>>
                                     THEN RDiv(sum(winning_trades), R(Len(winning_trades)))
                                     ELSE R(0),
              avg_loss           |-> IF losing_trades # <<>>
                                     THEN RAbs(RDiv(sum(losing_trades),
                                                    R(Len(losing_trades))))
                                     ELSE R(0),
              consecutive_wins   |-> R(_calculate_consecutive_wins(pnl_list)),
              consecutive_losses |-> R(_calculate_consecutive_losses(pnl_list))]

\* PerformanceAnalyzer._calculate_equity_metrics
_calculate_equity_metrics(curve, starting_capital) ==
    IF Len(curve) = 0 THEN <<>>
    ELSE LET final_capital == curve[Len(curve)].capital
             total_return  == RDiv(RSub(final_capital, starting_capital),
                                   starting_capital)
         IN  [starting_capital |-> starting_capital,
              final_capital    |-> final_capital,
              total_return     |-> total_return,
              total_return_pct |-> RMul(total_return, R(100))]

\* PerformanceAnalyzer._calculate_risk_metrics
_calculate_risk_metrics(curve) ==
    IF Len(curve) = 0 THEN <<>>
    ELSE [max_drawdown |-> Float, max_drawdown_pct |-> Float,
          daily_volatility |-> Float, annual_volatility |-> Float]

\* PerformanceAnalyzer._calculate_return_metrics
_calculate_return_metrics(curve, starting_capital) ==
    IF Len(curve) < 2 THEN <<>>
    ELSE [annualized_return |-> Float, annualized_return_pct |-> Float,
          daily_avg_return |-> Float, daily_std_return |-> Float]

\* PerformanceAnalyzer._calculate_sharpe_ratio
_calculate_sharpe_ratio(curve) == IF Len(curve) < 2 THEN R(0) ELSE Float

\* PerformanceAnalyzer._empty_metrics
_empty_metrics ==
    [total_trades |-> R(0), winning_trades |-> R(0), losing_trades |-> R(0),
     win_rate |-> R(0), sharpe_ratio |-> R(0), max_drawdown_pct |-> R(0),
     total_return_pct |-> R(0), annualized_return_pct |-> R(0)]

\* the metrics of a result with trades: the ** merge, then the composite
\* ratios; metrics['annualized_return'] raises KeyError when the curve is
\* shorter than two samples
analyze_trades(backtest_results, starting_capital) ==
    LET curve   == backtest_results.equity_curve
        metrics == _calculate_return_metrics(curve, starting_capital)
                   @@ _calculate_risk_metrics(curve)
                   @@ _calculate_equity_metrics(curve, starting_capital)
                   @@ _calculate_trade_metrics(backtest_results.trades)
    IN  IF "annualized_return" \notin DOMAIN metrics
        THEN Raised
        ELSE [sharpe_ratio  |-> _calculate_sharpe_ratio(curve),
              calmar_ratio  |-> Float,
              profit_factor |-> _calculate_profit_factor(backtest_results.trades)]
             @@ metrics

\* analyze_backtest without the test for an empty trade log
analyze_backtest_unguarded(backtest_results, starting_capital) ==
    analyze_trades(backtest_results, starting_capital)

\* PerformanceAnalyzer.analyze_backtest
analyze_backtest(backtest_results, starting_capital) ==
    IF Len(backtest_results.trades) = 0
    THEN _empty_metrics
    ELSE analyze_trades(backtest_results, starting_capital)

\* the keys print_report formats for a result with trades
ReportKeys ==
    {"total_trades", "winning_trades", "win_rate", "losing_trades", "loss_rate",
     "largest_win", "largest_loss", "avg_win", "avg_loss", "profit_factor",
     "total_return_pct", "annualized_return_pct", "daily_avg_return",
     "max_drawdown_pct", "daily_volatility", "annual_volatility", "sharpe_ratio",
     "calmar_ratio"}

\* PerformanceAnalyzer.print_report: the report logged, or the KeyError of a
\* missing metric
print_report(metrics) ==
    IF "total_trades" \notin DOMAIN metrics THEN Raised
    ELSE IF metrics.total_trades = R(0) THEN [report |-> "No trades executed."]
    ELSE IF ReportKeys \subseteq DOMAIN metrics THEN [report |-> "TRADE STATISTICS"]
    ELSE Raised

----------------------------------------------------------------------------
(* The analyzer called on its own, over the trade logs and equity curves a  *)
(* run can hand it.                                                         *)

\* longest trade log analysed
MaxPnls == 3

\* net P&L of a closed trade
PnlValues == {R(-100), R(-50), R(0), R(50), R(100)}

TradeLogs ==
    UNION {[1..n -> [net_pnl : PnlValues]] : n \in 0..MaxPnls}

\* equity curves of zero, one and two dates
EquityCurves ==
    {<<>>, <<[capital |-> R(1024)]>>, <<[capital |-> R(1024)], [capital |-> R(1152)]>>}

AnalyzerInit ==
    /\ config = CHOOSE c \in Configs : c.commission_pct = R(0)
    /\ price_data = FullPriceData
    /\ history_len = [a \in Assets |-> MinObservations - 1]
    /\ Constructed
    /\ sig \in [trades : TradeLogs, equity_curve : EquityCurves,
                call : {"none"}, result : {None}, report : {None}]

AnalyzerUnchanged ==
    UNCHANGED <<config, price_data, dates, history_len, current_capital,
                equity_curve, trades, open_positions, trade_id, pc, date_idx,
                pair_idx, current_prices, capital_at_date_start, last>>

\* analyzer._calculate_profit_factor(trades)
CallProfitFactor ==
    /\ sig.call = "none"
    /\ sig' = [sig EXCEPT !.call = "_calculate_profit_factor",
                          !.result = _calculate_profit_factor(sig.trades)]
    /\ AnalyzerUnchanged

\* analyzer._calculate_trade_metrics(trades)
CallTradeMetrics ==
    /\ sig.call = "none"
    /\ sig' = [sig EXCEPT !.call = "_calculate_trade_metrics",
                          !.result = _calculate_trade_metrics(sig.trades)]
    /\ AnalyzerUnchanged

\* analyzer.analyze_backtest(results, config starting capital)
CallAnalyzeBacktest ==
    /\ sig.call = "none"
    /\ sig' = [sig EXCEPT !.call = "analyze_backtest",
                          !.result = analyze_backtest(
                              [trades |-> sig.trades,
                               equity_curve |-> sig.equity_curve],
                              config.starting_capital)]
    /\ AnalyzerUnchanged

\* analyzer.print_report(metrics), as main does after analyze_backtest
CallPrintReport ==
    /\ sig.call = "analyze_backtest"
    /\ sig.result # Raised
    /\ sig' = [sig EXCEPT !.call = "print_report",
                          !.report = print_report(sig.result)]
    /\ AnalyzerUnchanged

AnalyzerNext ==
    CallProfitFactor \/ CallTradeMetrics \/ CallAnalyzeBacktest \/ CallPrintReport

AnalyzerSpec == AnalyzerInit /\ [][AnalyzerNext]_vars

----------------------------------------------------------------------------
(* Properties of the analyzer *)

\* the trades of a log with nonzero net P&L
NonzeroTrades(trade_log) ==
    LET Nonzero(t) == t.net_pnl # R(0) IN SelectSeq(trade_log, Nonzero)

RECURSIVE SumAt(_, _)
\* the sum of the net P&L at the positions I of a log
SumAt(trade_log, I) ==
    IF I = {} THEN R(0)
    ELSE LET i == CHOOSE j \in I : TRUE
         IN  RAdd(trade_log[i].net_pnl, SumAt(trade_log, I \ {i}))

GrossProfit(trade_log) ==
    SumAt(trade_log, {i \in 1..Len(trade_log) : RLt(R(0), trade_log[i].net_pnl)})

GrossLoss(trade_log) ==
    RAbs(SumAt(trade_log, {i \in 1..Len(trade_log) : RLt(trade_log[i].net_pnl, R(0))}))

\* C23: the profit factor is gross profit / gross loss when gross loss is
\* nonzero; when gross loss is 0 it is gross profit / 0.01 if gross profit is
\* positive and 0 otherwise (a single trade of +100 gives 10000, a log
\* without wins or losses gives 0); trades with zero P&L change nothing.
C23_ProfitFactor ==
    sig.call = "_calculate_profit_factor" =>
        /\ GrossLoss(sig.trades) # R(0) =>
              sig.result = RDiv(GrossProfit(sig.trades), GrossLoss(sig.trades))
        /\ (GrossLoss(sig.trades) = R(0) /\ RLt(R(0), GrossProfit(sig.trades))) =>
              sig.result = RMul(GrossProfit(sig.trades), R(100))
        /\ (GrossLoss(sig.trades) = R(0) /\ GrossProfit(sig.trades) = R(0)) =>
              sig.result = R(0)
        /\ (GrossProfit(sig.trades) = R(100) /\ GrossLoss(sig.trades) = R(0)) =>
              sig.result = R(10000)
        /\ sig.result = _calculate_profit_factor(NonzeroTrades(sig.trades))

\* a log of two wins summing to 100 around a zero-P&L trade, no loss
C23_Witness ==
    /\ sig.call = "_calculate_profit_factor"
    /\ Len(sig.trades) = 3
    /\ sig.trades[2].net_pnl = R(0)
    /\ GrossProfit(sig.trades) = R(100)
    /\ GrossLoss(sig.trades) = R(0)
    /\ sig.result = R(10000)

\* the length of the longest contiguous run of wins (sign 1) or of losses
\* (sign -1) in a list of net P&Ls
LongestRun(pnl_list, sign) ==
    LET Matches(p) == IF sign = 1 THEN RLt(R(0), p) ELSE RLt(p, R(0))
        runs == {r \in (1..Len(pnl_list)) \X (1..Len(pnl_list)) :
                    /\ r[1] <= r[2]
                    /\ \A k \in r[1]..r[2] : Matches(pnl_list[k])}
        lens == {r[2] - r[1] + 1 : r \in runs} \cup {0}
    IN  CHOOSE m \in lens : \A n \in lens : n <= m

\* C24: consecutive_wins is the length of the longest contiguous run of
\* strictly positive net P&Ls and consecutive_losses that of strictly negative
\* ones, a zero or a value of the other sign ending the run; neither exceeds
\* the number of winning (resp. losing) trades.
C24_Streaks ==
    (sig.call = "_calculate_trade_metrics" /\ Len(sig.trades) > 0) =>
        /\ sig.result.consecutive_wins = R(LongestRun(NetPnls(sig.trades), 1))
        /\ sig.result.consecutive_losses = R(LongestRun(NetPnls(sig.trades), -1))
        /\ ~RLt(sig.result.winning_trades, sig.result.consecutive_wins)
        /\ ~RLt(sig.result.losing_trades, sig.result.consecutive_losses)

\* two wins separated by a zero-P&L trade: the streak is 1, the wins are 2
C24_Witness ==
    /\ sig.call = "_calculate_trade_metrics"
    /\ Len(sig.trades) = 3
    /\ RLt(R(0), sig.trades[1].net_pnl)
    /\ sig.trades[2].net_pnl = R(0)
    /\ RLt(R(0), sig.trades[3].net_pnl)
    /\ sig.result.consecutive_wins = R(1)
    /\ sig.result.winning_trades = R(2)

\* C25: analyze_backtest on a result with an empty trade log, whatever its
\* equity curve, returns a metrics record whose every value is 0 and raises
\* nothing, and print_report accepts that record.
C25_EmptyLogGivesZeroMetrics ==
    (sig.call \in {"analyze_backtest", "print_report"} /\ sig.trades = <<>>) =>
        /\ sig.result # Raised
        /\ DOMAIN sig.result # {}
        /\ \A key \in DOMAIN sig.result : sig.result[key] = R(0)
        /\ sig.call = "print_report" => sig.report = [report |-> "No trades executed."]

\* the record of an empty log with an equity curve of two dates has been
\* analysed and printed
C25_Witness ==
    /\ sig.call = "print_report"
    /\ sig.trades = <<>>
    /\ Len(sig.equity_curve) = 2
    /\ sig.result.total_trades = R(0)
    /\ sig.report # Raised

----------------------------------------------------------------------------
(* Properties of the run: what closes a position, and the trade ids *)

\* the trade ids of the trade log
LoggedIds == {trades[i].trade_id : i \in 1..Len(trades)}

\* C26: a position leaves open_positions only in a call of _process_pair for
\* its pair, on a date on which both assets have at least 252 observations,
\* the pair tested cointegrated and |deviation| < exit_threshold (signal
\* CLOSE), and it is then appended to the trade log; no other step removes
\* it.  When the dates are exhausted the run ends without touching the open
\* positions, the trade log, the capital or the equity curve, so a position
\* still open is in no log entry and in no capital figure.
C26_OnlyExitSignalCloses ==
    [][/\ \A key \in DOMAIN open_positions :
             key \notin DOMAIN open_positions' =>
                /\ IsProcessPairStep
                /\ PairEnumeration(pairs)[pair_idx] = key
                /\ ObservationsUpTo(key[1], dates[date_idx]) >= MinObservations
                /\ ObservationsUpTo(key[2], dates[date_idx]) >= MinObservations
                /\ last'.returned = "executed"
                /\ last'.signal_result.signal = "CLOSE"
                /\ RLt(RAbs(last'.signal_result.zscore), config.exit_threshold)
                /\ Len(trades') = Len(trades) + 1
                /\ trades'[Len(trades')].trade_id = open_positions[key].trade_id
                /\ trades'[Len(trades')].exit_time = dates[date_idx]
       /\ (pc # "done" /\ pc' = "done") =>
             /\ UNCHANGED <<open_positions, trades, current_capital, equity_curve>>
             /\ \A key \in DOMAIN open_positions :
                   open_positions[key].trade_id \notin LoggedIds
      ]_vars

\* the run has ended with one trade closed and another position still open
C26_Witness ==
    /\ pc = "done"
    /\ Len(trades) >= 1
    /\ open_positions # <<>>
    /\ current_capital = RAdd(config.starting_capital, SumNetPnl(trades))

\* every trade the engine holds: the closed ones and the open positions
AllTrades ==
    {trades[i] : i \in 1..Len(trades)}
        \cup {open_positions[key] : key \in DOMAIN open_positions}

\* C27: the trade-id counter equals the number of logged trades plus the
\* number of open positions; the ids of all trades are pairwise distinct and
\* are 0, 1, 2, ... in order of opening (by entry date, then by the order in
\* which run visits the pairs).
C27_TradeIdsCountOpenings ==
    /\ trade_id = Len(trades) + Cardinality(DOMAIN open_positions)
    /\ \A i, j \in 1..Len(trades) : i # j => trades[i].trade_id # trades[j].trade_id
    /\ \A key \in DOMAIN open_positions : open_positions[key].trade_id \notin LoggedIds
    /\ \A k1, k2 \in DOMAIN open_positions :
          k1 # k2 => open_positions[k1].trade_id # open_positions[k2].trade_id
    /\ {t.trade_id : t \in AllTrades} = 0..(trade_id - 1)
    /\ \A t, u \in AllTrades :
          t.trade_id < u.trade_id =>
             \/ t.entry_time < u.entry_time
             \/ /\ t.entry_time = u.entry_time
                /\ PairIndex(t.pair) < PairIndex(u.pair)

\* the trade opened second was closed first: the log is not in id order
C27_Witness ==
    /\ Len(trades) >= 2
    /\ trades[1].trade_id > trades[2].trade_id
    /\ trade_id = Len(trades) + Cardinality(DOMAIN open_positions)

----------------------------------------------------------------------------
(* Properties of the commission *)

\* C28: a closed trade with non-negative notional, under a non-negative
\* commission_pct, is charged fees >= 0, so that net_pnl <= gross_pnl,
\* whatever the sign of its entry spread.
C28_FeesNeverNegative ==
    \A i \in 1..Len(trades) :
        (/\ ~RLt(trades[i].entry_quantity, R(0))
         /\ ~RLt(config.commission_pct, R(0))) =>
            /\ ~RLt(FeesOf(trades[i]), R(0))
            /\ ~RLt(trades[i].gross_pnl, trades[i].net_pnl)

----------------------------------------------------------------------------
(* _process_pair called on its own for one pair, flat or with a position   *)
(* opened the date before, under every pair of thresholds.                 *)

PairConfigs ==
    {[starting_capital |-> R(1024),
      risk_per_trade   |-> <<1, 2>>,
      max_position_pct |-> R(25),
      commission_pct   |-> R(0),
      min_pvalue       |-> <<1, 20>>,
      entry_threshold  |-> t[1],
      exit_threshold   |-> t[2]] : t \in Thresholds \X Thresholds}

PairInit ==
    /\ config \in PairConfigs
    /\ price_data = FullPriceData
    /\ history_len = [a \in Assets |-> MinObservations - 1]
    /\ Constructed
    /\ sig = NoCall

\* _open_trade(pair1, pair2, side, date, spread, hedge_ratio) on the first date
PairOpen ==
    /\ sig = NoCall
    /\ \E side \in {"LONG", "SHORT"}, spread \in TradeSpreads, h \in HedgeRatios :
          LET out == _open_trade(Self, pairs[1], pairs[2], side, dates[1], spread, h)
          IN  /\ current_capital' = out.current_capital
              /\ trades' = out.trades
              /\ open_positions' = out.open_positions
              /\ trade_id' = out.trade_id
    /\ sig' = [returned |-> "opened"]
    /\ UNCHANGED <<config, price_data, dates, history_len, equity_curve, pc,
                   date_idx, pair_idx, current_prices, capital_at_date_start, last>>

\* _process_pair(pair1, pair2, date, prices) on the second date
PairProcess ==
    /\ sig.returned \in {"none", "opened"}
    /\ \E row \in Rows :
          /\ DOMAIN CurrentPrices(row) = Assets
          /\ \E out \in _process_pair(Self, pairs[1], pairs[2], dates[2],
                                      CurrentPrices(row)) :
                /\ current_capital' = out.self.current_capital
                /\ trades' = out.self.trades
                /\ open_positions' = out.self.open_positions
                /\ trade_id' = out.self.trade_id
                /\ last' = out.locals
                /\ pc' = IF out.raised THEN "raised" ELSE pc
    /\ sig' = [returned |-> "processed"]
    /\ UNCHANGED <<config, price_data, dates, history_len, equity_curve,
                   date_idx, pair_idx, current_prices, capital_at_date_start>>

PairNext == PairOpen \/ PairProcess

PairSpec == PairInit /\ [][PairNext]_vars

----------------------------------------------------------------------------
(* Properties of a date with zero spread std *)

\* what _process_pair does with a position on a cointegrated date of zero
\* spread std when exit_threshold > 0: CLOSE with confidence 1, and the
\* position is logged as closed at the date's spread
ZeroStdCloses ==
    (/\ last.position # None
     /\ RLt(R(0), config.exit_threshold)) =>
        /\ last.signal_result.signal = "CLOSE"
        /\ last.signal_result.confidence = R(1)
        /\ last.pair \notin DOMAIN open_positions
        /\ Len(trades) = 1
        /\ trades[1].trade_id = last.position.trade_id
        /\ trades[1].exit_price = last.current_spread
        /\ trades[1].exit_time = dates[2]

\* C29 as claimed: on a date where the pair tests cointegrated with spread
\* std exactly 0 the deviation is 0; a position is closed as above, and for
\* a flat pair the signal is HOLD.
C29_ZeroStdIsFullReversion ==
    (/\ sig.returned = "processed"
     /\ last.returned = "executed"
     /\ last.spread_std = R(0)) =>
        /\ last.signal_result.zscore = R(0)
        /\ ZeroStdCloses
        /\ last.position = None =>
              /\ last.signal_result.signal = "HOLD"
              /\ open_positions = <<>>

\* C29: the same, the flat pair being answered HOLD when entry_threshold is
\* not negative.
C29_ZeroStdIsFullReversionEntryNotNegative ==
    (/\ sig.returned = "processed"
     /\ last.returned = "executed"
     /\ last.spread_std = R(0)) =>
        /\ last.signal_result.zscore = R(0)
        /\ ZeroStdCloses
        /\ (last.position = None /\ ~RLt(config.entry_threshold, R(0))) =>
              /\ last.signal_result.signal = "HOLD"
              /\ open_positions = <<>>

\* a position opened at another spread is closed on a date of zero spread std
C29_Witness ==
    /\ sig.returned = "processed"
    /\ last.returned = "executed"
    /\ last.spread_std = R(0)
    /\ last.position # None
    /\ RLt(R(0), config.exit_threshold)
    /\ ~RLt(config.entry_threshold, R(0))
    /\ last.position.entry_price # last.current_spread
    /\ Len(trades) = 1
    /\ trades[1].exit_price = last.current_spread

----------------------------------------------------------------------------
(* CointegrationTester.test_multiple_pairs called on its own: sig holds the *)
(* arguments (price_data as the number of rows of each asset present), the  *)
(* position of the loop and the results dict.                               *)

\* rows of each asset a price_data argument may hold
SeriesLens == [a \in Assets |-> IF a = "A" THEN Lookback + 1 ELSE Lookback]

\* price_data arguments: any subset of the assets present
MultiPriceData == {[a \in S |-> SeriesLens[a]] : S \in SUBSET Assets}

\* the log line after a test: formatting result['adf_pvalue'] with :.4f
\* raises TypeError when the p-value is None
log_result(result) == IF result.adf_pvalue = None THEN Raised ELSE None

MultiInit ==
    /\ config = CHOOSE c \in Configs : c.commission_pct = R(0)
    /\ price_data = FullPriceData
    /\ history_len = [a \in Assets |-> MinObservations - 1]
    /\ Constructed
    /\ sig \in [price_data : MultiPriceData, pairs : {PairEnumeration(pairs)},
                i : {1}, results : {<<>>}, pc : {"loop"}]

MultiUnchanged ==
    UNCHANGED <<config, price_data, dates, history_len, current_capital,
                equity_curve, trades, open_positions, trade_id, pc, date_idx,
                pair_idx, current_prices, capital_at_date_start, last>>

\* test_multiple_pairs, lines 176-193: one iteration of the loop
MultiStep ==
    /\ sig.pc = "loop"
    /\ sig.i <= Len(sig.pairs)
    /\ LET pair == sig.pairs[sig.i] IN
       IF pair[1] \notin DOMAIN sig.price_data \/ pair[2] \notin DOMAIN sig.price_data
       THEN sig' = [sig EXCEPT !.i = @ + 1]
       ELSE LET min_len == IMin(sig.price_data[pair[1]], sig.price_data[pair[2]])
            IN  \E result \in test_cointegration([min_pvalue |-> config.min_pvalue],
                                                 min_len, min_len, Lookback) :
                   IF result = Raised \/ log_result(result) = Raised
                   THEN sig' = [sig EXCEPT !.pc = "raised"]
                   ELSE sig' = [sig EXCEPT !.i = @ + 1,
                                           !.results = DictSet(@, pair, result)]
    /\ MultiUnchanged

\* test_multiple_pairs, line 195: return results
MultiReturn ==
    /\ sig.pc = "loop"
    /\ sig.i > Len(sig.pairs)
    /\ sig' = [sig EXCEPT !.pc = "returned"]
    /\ MultiUnchanged

MultiNext == MultiStep \/ MultiReturn

MultiSpec == MultiInit /\ [][MultiNext]_vars

----------------------------------------------------------------------------
(* Properties of test_multiple_pairs *)

\* the requested pairs with both assets in price_data
PresentPairs ==
    {sig.pairs[k] : k \in {j \in 1..Len(sig.pairs) :
                              /\ sig.pairs[j][1] \in DOMAIN sig.price_data
                              /\ sig.pairs[j][2] \in DOMAIN sig.price_data}}

\* C30: test_multiple_pairs never ends in an exception, and it returns a
\* result for exactly the requested pairs with both assets present, a failed
\* stationarity test being returned as a result that is not cointegrated.
C30_OneResultPerPresentPair ==
    /\ sig.pc # "raised"
    /\ sig.pc = "returned" =>
          /\ DOMAIN sig.results = PresentPairs
          /\ \A key \in DOMAIN sig.results :
                "error" \in DOMAIN sig.results[key] => ~sig.results[key].cointegrated

====
